---------------------------- MODULE Spec2Model ----------------------------
(***************************************************************************)
(* The rislingo backend: the session service (backend/routers/auth.py,     *)
(* Spec), the task1 archive (backend/routers/task1_archive.py,             *)
(* SpecArchive), the life of a PracticeSession row as test_full_flow.py    *)
(* runs it (SpecFlow) and the phrase repository                            *)
(* (backend/repositories/phrase_repository.py, SpecPhrase, and            *)
(* SpecPhraseRace, where delete_phrase runs as a lookup step and a commit  *)
(* step of concurrent requests).  The specifications share the store; each *)
(* runs the operations of its part and leaves the tables of the other      *)
(* parts as they are.                                                      *)
(*                                                                         *)
(* Session service.                                                        *)
(* The store holds the users and sessions tables.  Every HTTP request has  *)
(* its own database session (database.py get_db).  simple_login, whose     *)
(* create_or_get_user is a check-then-act sequence, is run as a sequence of *)
(* store round trips: each round trip (a query, or an add followed by       *)
(* commit) is one atomic step, and the steps of concurrent logins           *)
(* interleave freely with each other and with every other request.  A       *)
(* login becomes visible to the others with its first round trip, so its    *)
(* arrival is part of that step, and its response is part of its last one.  *)
(* verify_session and logout are run as a whole.                            *)
(*                                                                         *)
(* Time is counted in days.  secrets.token_urlsafe(32) draws 256 random    *)
(* bits; it is modelled as returning a value it never returned before.     *)
(* A commit can fail only where the source handles the failure (the        *)
(* try/except of simple_login).                                            *)
(***************************************************************************)
EXTENDS Integers, FiniteSets, Sequences, TLC

\* ------------------------------------------------------------- bounds
NumReqs == 2
MaxTokens == 2

\* ---------------------------------------------------------- constants
\* timedelta(days=30)
SessionTTL == 30

Idents == {"alice", "bob"}
Reqs == 1..NumReqs
Tokens == 1..MaxTokens
\* An empty or missing session_token
NoToken == 0
\* A session_token that no login ever returned
BogusToken == -1
\* None for a User
NoUser == 0
\* None for a DBSession
NoRow == [user_id |-> 0, session_token |-> 0, expires_at |-> 0]
\* The instants at which requests arrive: around the start of a session and
\* before, at and after the expiry of a session that started at 0 or at 1
Instants == {0, 1, SessionTTL, SessionTTL + 1, SessionTTL + 2}

\* The number of uuid4() draws (PracticeSession ids) in one run
MaxPractice == 3

TaskTypes == {"task1", "task3"}
\* The ids of PracticeSessions, and one more that no row ever carries
PracticeIds == 1..(MaxPractice + 1)
\* None for a score, a transcript and feedback_json
NoScore == -1
\* None for a PracticeSession
NoPractice ==
    [id |-> 0, user_id |-> 0, task_type |-> "", created_at |-> 0,
     overall_score |-> -1]
\* The instants at which PracticeSessions are created: two rows can carry one
\* created_at
ArchiveInstants == {0, 1}
\* A question_id path parameter: the text of a UUID in the canonical form
\* (8-4-4-4-12), the text of a UUID as 32 hex digits without hyphens, or a text
\* that is no UUID
QuestionIds ==
    {[form |-> f, hex |-> h] : f \in {"canonical", "hex32"}, h \in PracticeIds}
        \cup {[form |-> "garbage", hex |-> 0]}
\* The user_id and question_id values that the archive requests of one run
\* carry: one caller, who asks for the first question in either form and for
\* a text that is no UUID
AskedIdents == {"alice"}
AskedQuestionIds ==
    {[form |-> "canonical", hex |-> 1], [form |-> "hex32", hex |-> 1],
     [form |-> "garbage", hex |-> 0]}
\* limit: Query(50, ge=1, le=100); offset: Query(0, ge=0)
Limits == {1, 2, 50}
Offsets == {0, 1, 4}
\* The limit and offset values that the requests of one run carry
AskedWindows == {[limit |-> 50, offset |-> 0], [limit |-> 1, offset |-> 1]}

\* The number of SavedPhrase rows saved in one run
MaxPhrases == 2

\* The ids of SavedPhrases, and one more that no row ever carries
PhraseIds == 1..(MaxPhrases + 1)
\* None for a SavedPhrase
NoPhrase == [id |-> 0, user_id |-> 0, is_mastered |-> FALSE, created_at |-> 0]
\* A worker that runs no delete_phrase
NotDeleting ==
    [pc |-> "idle", id |-> 0, existed |-> FALSE, phrase |-> NoPhrase,
     result |-> FALSE]
\* No repository call has returned yet
NoPhraseCall ==
    [op |-> "none", id |-> 0, user |-> NoUser, is_mastered |-> FALSE,
     found |-> NoPhrase, list |-> <<>>, deleted |-> FALSE]

\* users, sessions: the tables; now: datetime.utcnow() in days; nextToken:
\* the number of the next token draw; req: the locals of the login each
\* worker runs; last: the call that returned last,
\* with its arguments, locals and response; cguReturned: per identifier, the
\* user ids that calls of create_or_get_user have returned
VARIABLES users, sessions, now, nextToken, req, last, cguReturned

\* practice: the practice_sessions table; nextUuid: the number of the next
\* uuid4() draw; flow: the locals of the run of test_full_flow; lastA: the
\* request on the archive's tables that returned last, with its arguments and
\* response
VARIABLES practice, nextUuid, flow, lastA

\* phrases: the saved_phrases table; nextPhraseId: the number of the next
\* generated phrase id; savedPhrases: the id and owner of every phrase that
\* save_phrase has saved; deletedPhrases: the ids of the phrases that
\* delete_phrase has removed; lastP: the repository call that returned last;
\* deleting: the locals and the result of the delete_phrase call each worker
\* runs step by step
VARIABLES phrases, nextPhraseId, savedPhrases, deletedPhrases, lastP, deleting

authVars == <<users, sessions, now, nextToken, req, last, cguReturned>>
archiveVars == <<practice, nextUuid, flow, lastA>>
phraseVars ==
    <<phrases, nextPhraseId, savedPhrases, deletedPhrases, lastP, deleting>>

vars == <<authVars, archiveVars, phraseVars>>

\* A worker that runs no request
Idle ==
    [op |-> "none", pc |-> "idle", ident |-> "", token |-> NoToken,
     user |-> NoUser, created |-> NoUser]

\* No call has returned yet
NoCall ==
    [op |-> "none", ident |-> "", token |-> NoToken, user |-> NoUser,
     found |-> NoRow, at |-> 0, created |-> NoUser, status |-> 0, err |-> ""]

\* The call of the request with locals q returns with the given status and error
Returned(q, status, err) ==
    [op |-> q.op, ident |-> q.ident, token |-> q.token, user |-> q.user,
     found |-> NoRow, at |-> now, created |-> q.created,
     status |-> status, err |-> err]

\* The test run is not in progress
FlowIdle == [pc |-> "idle", test_id |-> 0, result |-> "none"]

\* No archive request has returned yet
NoReply ==
    [op |-> "none", ident |-> "", question_id |-> [form |-> "garbage", hex |-> 0],
     limit |-> 0, offset |-> 0, status |-> 0, detail |-> "", total |-> 0,
     questions |-> <<>>]

\* ------------------------------------------------------------ queries

\* A lookup whose filter never matches
UserByIdentifier_miss(U, ident) == NoUser

\* db.query(User).filter(User.user_identifier == user_identifier).first()
UserByIdentifier(U, ident) ==
    IF \E u \in U : u.user_identifier = ident
    THEN (CHOOSE u \in U : u.user_identifier = ident).id
    ELSE NoUser

\* db.query(User).filter(User.id == db_session.user_id).first()
UserById(U, id) ==
    IF \E u \in U : u.id = id THEN (CHOOSE u \in U : u.id = id).id ELSE NoUser

\* A lookup that falls back to some row when no row carries the token
SessionByToken_any(S, tok) ==
    IF \E s \in S : s.session_token = tok
    THEN CHOOSE s \in S : s.session_token = tok
    ELSE IF S # {} THEN CHOOSE s \in S : TRUE ELSE NoRow

\* db.query(DBSession).filter(DBSession.session_token == session_token).first()
SessionByToken(S, tok) ==
    IF \E s \in S : s.session_token = tok
    THEN CHOOSE s \in S : s.session_token = tok
    ELSE NoRow

\* The unique constraint of users.user_identifier rejects the insert
UserIdentifierTaken(U, ident) == \E u \in U : u.user_identifier = ident

\* The id the store gives a new User row: users are never deleted
NewUserId(U) == Cardinality(U) + 1


\* ------------------------------------------------------------- writes

\* A create_or_get_user whose failed commit is swallowed: the caller gets the
\* User object that was never persisted
AddUserCommit_swallow(U, ident, fail) ==
    IF fail
    THEN [ok |-> FALSE, err |-> "StoreFailure", users |-> U, user |-> NoUser,
          created |-> NoUser]
    ELSE IF UserIdentifierTaken(U, ident)
    THEN [ok |-> TRUE, err |-> "", users |-> U, user |-> NewUserId(U),
          created |-> NoUser]
    ELSE [ok |-> TRUE, err |-> "",
          users |-> U \cup {[id |-> NewUserId(U), user_identifier |-> ident]},
          user |-> NewUserId(U), created |-> NewUserId(U)]

\* user = User(user_identifier=...); db.add(user); db.commit(); db.refresh(user)
\* The commit raises when the store is down (fail) or when the unique
\* constraint rejects the row; otherwise the row is committed on its own.
AddUserCommit(U, ident, fail) ==
    IF fail
    THEN [ok |-> FALSE, err |-> "StoreFailure", users |-> U, user |-> NoUser,
          created |-> NoUser]
    ELSE IF UserIdentifierTaken(U, ident)
    THEN [ok |-> FALSE, err |-> "IntegrityError", users |-> U, user |-> NoUser,
          created |-> NoUser]
    ELSE [ok |-> TRUE, err |-> "",
          users |-> U \cup {[id |-> NewUserId(U), user_identifier |-> ident]},
          user |-> NewUserId(U), created |-> NewUserId(U)]

\* A token generator whose second draw repeats the first
GenerateSessionToken_repeat(n) == IF n > 1 THEN n - 1 ELSE n

\* secrets.token_urlsafe(32): the n-th draw, never equal to an earlier one
GenerateSessionToken(n) == n

\* The lifetime subtracted instead of added
ExpiresAt_past(t) == t - SessionTTL

\* datetime.utcnow() + timedelta(days=30)
ExpiresAt(t) == t + SessionTTL

\* A login that keeps one session per user, replacing the one it finds
AddSessionCommit_upsert(S, uid, tok, exp) ==
    {s \in S : s.user_id # uid}
        \cup {[user_id |-> uid, session_token |-> tok, expires_at |-> exp]}

\* db_session = DBSession(user_id, session_token, expires_at); db.add; db.commit
AddSessionCommit(S, uid, tok, exp) ==
    S \cup {[user_id |-> uid, session_token |-> tok, expires_at |-> exp]}

\* A delete that is never committed
DeleteSessionCommit_noCommit(S, row) == S

\* A delete that removes every session of the row's user
DeleteSessionCommit_allOfUser(S, row) == {s \in S : s.user_id # row.user_id}

\* db.delete(db_session); db.commit(): DELETE of that one row, a no-op when
\* another request removed it first
DeleteSessionCommit(S, row) == S \ {row}

\* ---------------------------------------------------------------- Init

Init ==
    /\ users = {}
    /\ sessions = {}
    /\ now = 0
    /\ nextToken = 1
    /\ req = [r \in Reqs |-> Idle]
    /\ last = NoCall
    /\ cguReturned = [i \in Idents |-> {}]
    /\ practice = {}
    /\ nextUuid = 1
    /\ flow = FlowIdle
    /\ lastA = NoReply
    /\ phrases = {}
    /\ nextPhraseId = 1
    /\ savedPhrases = {}
    /\ deletedPhrases = {}
    /\ lastP = NoPhraseCall
    /\ deleting = [r \in Reqs |-> NotDeleting]

\* --------------------------------------------------- POST /simple-login

\* The logins that have not drawn their token yet
InFlightLogins == Cardinality({r \in Reqs : req[r].op = "login"})

\* simple_login with request.user_id = ident, up to the lookup of
\* create_or_get_user, which returns an existing user at once.  The number of
\* tokens drawn in one run is capped at MaxTokens.
CguQuery(r, ident) ==
    /\ req[r].pc = "idle"
    /\ nextToken + InFlightLogins <= MaxTokens
    /\ LET u == UserByIdentifier(users, ident) IN
         /\ req' = [req EXCEPT ![r] =
                      [Idle EXCEPT !.op = "login", !.ident = ident, !.user = u,
                                   !.pc = IF u = NoUser THEN "cgu_insert"
                                          ELSE "login_session"]]
         /\ cguReturned' =
              IF u = NoUser THEN cguReturned
              ELSE [cguReturned EXCEPT ![ident] = @ \cup {u}]
    /\ UNCHANGED <<users, sessions, now, nextToken, last>>
    /\ UNCHANGED <<archiveVars, phraseVars>>

\* create_or_get_user: the insert and its commit; an exception reaches the
\* except branch of simple_login (rollback of nothing committed, 500)
CguInsert(r, fail) ==
    /\ req[r].pc = "cgu_insert"
    /\ LET out == AddUserCommit(users, req[r].ident, fail) IN
         /\ users' = out.users
         /\ IF out.ok
            THEN /\ req' = [req EXCEPT ![r].user = out.user,
                                       ![r].created = out.created,
                                       ![r].pc = "login_session"]
                 /\ cguReturned' =
                      [cguReturned EXCEPT ![req[r].ident] = @ \cup {out.user}]
                 /\ UNCHANGED last
            ELSE /\ req' = [req EXCEPT ![r] = Idle]
                 /\ last' = Returned(req[r], 500, out.err)
                 /\ UNCHANGED cguReturned
    /\ UNCHANGED <<sessions, now, nextToken>>
    /\ UNCHANGED <<archiveVars, phraseVars>>

\* simple_login after create_or_get_user: token, expiry, insert, commit, and
\* the response; a failed commit is rolled back (the pending Session row only:
\* the User row was committed by create_or_get_user) and answered with 500
LoginSession(r, fail) ==
    /\ req[r].pc = "login_session"
    /\ nextToken' = nextToken + 1
    /\ req' = [req EXCEPT ![r] = Idle]
    /\ LET tok == GenerateSessionToken(nextToken)
           exp == ExpiresAt(now) IN
         IF fail
         THEN /\ sessions' = sessions
              /\ last' = Returned(req[r], 500, "StoreFailure")
         ELSE /\ sessions' = AddSessionCommit(sessions, req[r].user, tok, exp)
              /\ last' = Returned([req[r] EXCEPT !.token = tok], 200, "")
    /\ UNCHANGED <<users, now, cguReturned>>
    /\ UNCHANGED <<archiveVars, phraseVars>>

\* ------------------------------------- get_current_user (GET /verify)

\* An expiry test with the comparison turned around
Expired_reversed(row, t) == row.expires_at > t

\* An expiry test that also counts the instant of expiry as expired
Expired_inclusive(row, t) == row.expires_at <= t

\* db_session.expires_at < datetime.utcnow()
Expired(row, t) == row.expires_at < t

\* ----------------------------------------------- the handlers as a whole

\* create_or_get_user with a working store: the users table afterwards and the
\* id of the user returned (NoUser when the commit raised)
CreateOrGetUser(U, ident) ==
    LET u == UserByIdentifier(U, ident) IN
      IF u # NoUser
      THEN [users |-> U, user |-> u]
      ELSE LET out == AddUserCommit(U, ident, FALSE) IN
             [users |-> out.users, user |-> out.user]

\* A get_current_user that purges every expired session it can see
GetCurrentUser_sweep(U, S, t, tok) ==
    LET live == {s \in S : ~Expired(s, t)}
        row == SessionByToken(S, tok) IN
      IF tok = NoToken \/ row = NoRow \/ Expired(row, t)
      THEN [user |-> NoUser, sessions |-> live]
      ELSE [user |-> UserById(U, row.user_id), sessions |-> live]

\* get_current_user at time t: the user returned and the sessions table afterwards
GetCurrentUser(U, S, t, tok) ==
    IF tok = NoToken
    THEN [user |-> NoUser, sessions |-> S]
    ELSE LET row == SessionByToken(S, tok) IN
           IF row = NoRow
           THEN [user |-> NoUser, sessions |-> S]
           ELSE IF Expired(row, t)
           THEN [user |-> NoUser, sessions |-> DeleteSessionCommit(S, row)]
           ELSE [user |-> UserById(U, row.user_id), sessions |-> S]

\* logout: the sessions table afterwards and the status of the response
Logout(S, tok) ==
    LET row == SessionByToken(S, tok) IN
      [sessions |-> IF row # NoRow THEN DeleteSessionCommit(S, row) ELSE S,
       status |-> 200]

\* GET /verify with the given session_token: get_current_user, answered with
\* the user (200) or, for None, with 401
VerifySession(tok) ==
    /\ LET res == GetCurrentUser(users, sessions, now, tok) IN
         /\ sessions' = res.sessions
         /\ last' = [NoCall EXCEPT
                       !.op = "resolve", !.token = tok, !.at = now,
                       !.found = IF tok = NoToken THEN NoRow
                                 ELSE SessionByToken(sessions, tok),
                       !.user = res.user,
                       !.status = IF res.user = NoUser THEN 401 ELSE 200]
    /\ UNCHANGED <<users, now, nextToken, req, cguReturned>>
    /\ UNCHANGED <<archiveVars, phraseVars>>

\* POST /logout with the given session_token
LogoutCall(tok) ==
    /\ LET res == Logout(sessions, tok) IN
         /\ sessions' = res.sessions
         /\ last' = [NoCall EXCEPT
                       !.op = "logout", !.token = tok, !.at = now,
                       !.found = SessionByToken(sessions, tok),
                       !.status = res.status]
    /\ UNCHANGED <<users, now, nextToken, req, cguReturned>>
    /\ UNCHANGED <<archiveVars, phraseVars>>

\* ------------------------------------------------------ the environment

\* datetime.utcnow() advances to a later instant
Tick(t) ==
    /\ t > now
    /\ now' = t
    /\ UNCHANGED <<users, sessions, nextToken, req, last, cguReturned>>
    /\ UNCHANGED <<archiveVars, phraseVars>>

\* What a client can present: nothing, a token a login drew, or a made-up one
PresentedTokens == {tok \in Tokens : tok < nextToken} \cup {NoToken, BogusToken}

Next ==
    \/ \E r \in Reqs, i \in Idents : CguQuery(r, i)
    \/ \E r \in Reqs, fail \in BOOLEAN : CguInsert(r, fail)
    \/ \E r \in Reqs, fail \in BOOLEAN : LoginSession(r, fail)
    \/ \E tok \in PresentedTokens : VerifySession(tok)
    \/ \E tok \in PresentedTokens : LogoutCall(tok)
    \/ \E t \in Instants : Tick(t)

Spec == Init /\ [][Next]_vars

\* ============================================================ the archive
\* backend/routers/task1_archive.py and the practice_sessions table

\* practice_sessions.user_id is a nullable foreign key to users.id
PracticeRowAccepted(U, row) ==
    row.user_id = NoUser \/ \E u \in U : u.id = row.user_id

\* PracticeSession(id, user_id, task_type, ...); add; commit: the scores, the
\* transcript and the feedback are None, created_at is the time of the insert
AddPracticeCommit(P, id, uid, tt, t) ==
    P \cup {[id |-> id, user_id |-> uid, task_type |-> tt, created_at |-> t,
             overall_score |-> NoScore]}

\* A scoring update that also stamps the row as a task1 attempt
ScorePracticeCommit_retype(P, id, score) ==
    {IF p.id = id THEN [p EXCEPT !.overall_score = score, !.task_type = "task1"]
     ELSE p : p \in P}

\* retrieved_session.user_transcript = ...; ....overall_score = 3; ...; commit:
\* the UPDATE of the row with that id
ScorePracticeCommit(P, id, score) ==
    {IF p.id = id THEN [p EXCEPT !.overall_score = score] ELSE p : p \in P}

\* session.query(PracticeSession).filter(PracticeSession.id == test_id).first()
PracticeById(P, id) ==
    IF \E p \in P : p.id = id THEN CHOOSE p \in P : p.id = id ELSE NoPractice

\* session.delete(final_session); session.commit()
DeletePracticeCommit(P, row) == P \ {row}

\* A lookup of one question that leaves out the owner
Task1SessionOf_anyOwner(P, id, uid) ==
    IF \E p \in P : p.id = id /\ p.task_type = "task1"
    THEN CHOOSE p \in P : p.id = id /\ p.task_type = "task1"
    ELSE NoPractice

\* db.query(PracticeSession).filter(PracticeSession.id == question_uuid,
\*     PracticeSession.user_id == user.id,
\*     PracticeSession.task_type == "task1").first()
Task1SessionOf(P, id, uid) ==
    IF \E p \in P : p.id = id /\ p.user_id = uid /\ p.task_type = "task1"
    THEN CHOOSE p \in P : p.id = id /\ p.user_id = uid /\ p.task_type = "task1"
    ELSE NoPractice

\* A filter that leaves out the task type
Task1SessionsOf_anyType(P, uid) == {p \in P : p.user_id = uid}

\* db.query(PracticeSession).filter(PracticeSession.user_id == user.id,
\*     PracticeSession.task_type == "task1")
Task1SessionsOf(P, uid) ==
    {p \in P : p.user_id = uid /\ p.task_type = "task1"}

\* .order_by(desc(PracticeSession.created_at)): every order the store can
\* return the rows in; rows with one created_at come in any order
OrderedByCreatedAtDesc(S) ==
    {ord \in [1..Cardinality(S) -> S] :
        /\ \A i, j \in 1..Cardinality(S) : i # j => ord[i] # ord[j]
        /\ \A i, j \in 1..Cardinality(S) :
              i < j => ord[i].created_at >= ord[j].created_at}

\* query.offset(offset).limit(limit).all()
OffsetLimit(ord, offset, limit) ==
    [k \in 1..(IF Len(ord) - offset < 0 THEN 0
               ELSE IF Len(ord) - offset < limit THEN Len(ord) - offset
               ELSE limit) |-> ord[offset + k]]

\* Task1QuestionResponse(id=str(session.id), ..., overall_score, created_at)
QuestionResponse(p) ==
    [id |-> [form |-> "canonical", hex |-> p.id],
     overall_score |-> p.overall_score, created_at |-> p.created_at]

\* UUID(question_id): the UUID that the text denotes, 0 for ValueError
ParseUUID(q) == IF q.form = "garbage" THEN 0 ELSE q.hex

\* get_task1_questions with the count taken from the page
GetTask1Questions_countPage(U, P, ident, limit, offset) ==
    LET user == UserByIdentifier(U, ident) IN
      IF user = NoUser
      THEN {[status |-> 404, detail |-> "User not found", total |-> 0,
             questions |-> <<>>]}
      ELSE LET query == Task1SessionsOf(P, user) IN
             {LET page == OffsetLimit(ord, offset, limit) IN
                [status |-> 200, detail |-> "", total |-> Len(page),
                 questions |-> [k \in DOMAIN page |->
                                   QuestionResponse(page[k])]]
              : ord \in OrderedByCreatedAtDesc(query)}

\* get_task1_questions: the responses the call can give
GetTask1Questions(U, P, ident, limit, offset) ==
    LET user == UserByIdentifier(U, ident) IN
      IF user = NoUser
      THEN {[status |-> 404, detail |-> "User not found", total |-> 0,
             questions |-> <<>>]}
      ELSE LET query == Task1SessionsOf(P, user)
               total == Cardinality(query) IN
             {LET page == OffsetLimit(ord, offset, limit) IN
                [status |-> 200, detail |-> "", total |-> total,
                 questions |-> [k \in DOMAIN page |->
                                   QuestionResponse(page[k])]]
              : ord \in OrderedByCreatedAtDesc(query)}

\* get_task1_question with the user looked up before the id is validated
GetTask1Question_userFirst(U, P, ident, q) ==
    LET user == UserByIdentifier(U, ident) IN
      IF user = NoUser
      THEN [status |-> 404, detail |-> "User not found", questions |-> <<>>]
      ELSE IF ParseUUID(q) = 0
      THEN [status |-> 400, detail |-> "Invalid question ID format",
            questions |-> <<>>]
      ELSE LET session == Task1SessionOf(P, ParseUUID(q), user) IN
             IF session = NoPractice
             THEN [status |-> 404, detail |-> "Task1 question not found",
                   questions |-> <<>>]
             ELSE [status |-> 200, detail |-> "",
                   questions |-> <<QuestionResponse(session)>>]

\* get_task1_question: the response
GetTask1Question(U, P, ident, q) ==
    IF ParseUUID(q) = 0
    THEN [status |-> 400, detail |-> "Invalid question ID format",
          questions |-> <<>>]
    ELSE LET user == UserByIdentifier(U, ident) IN
           IF user = NoUser
           THEN [status |-> 404, detail |-> "User not found", questions |-> <<>>]
           ELSE LET session == Task1SessionOf(P, ParseUUID(q), user) IN
                  IF session = NoPractice
                  THEN [status |-> 404, detail |-> "Task1 question not found",
                        questions |-> <<>>]
                  ELSE [status |-> 200, detail |-> "",
                        questions |-> <<QuestionResponse(session)>>]

\* create_or_get_user for an identifier that has no user yet, run as a whole
CreateUser(ident) ==
    /\ UserByIdentifier(users, ident) = NoUser
    /\ LET out == CreateOrGetUser(users, ident) IN
         /\ users' = out.users
         /\ cguReturned' = [cguReturned EXCEPT ![ident] = @ \cup {out.user}]
    /\ lastA' = [NoReply EXCEPT !.op = "login", !.status = 200]
    /\ UNCHANGED <<sessions, now, nextToken, req, last>>
    /\ UNCHANGED <<practice, nextUuid, flow, phraseVars>>

\* Problem generation for a user or for nobody: a new PracticeSession without
\* scores
GenerateProblem(uid, tt) ==
    /\ nextUuid <= MaxPractice
    /\ PracticeRowAccepted(users, [user_id |-> uid])
    /\ practice' = AddPracticeCommit(practice, nextUuid, uid, tt, now)
    /\ nextUuid' = nextUuid + 1
    /\ lastA' = [NoReply EXCEPT !.op = "generate", !.status = 200]
    /\ UNCHANGED flow
    /\ UNCHANGED <<authVars, phraseVars>>

\* test_full_flow, step 1: test_id = uuid4(); PracticeSession(user_id=None,
\* task_type="task3", ...); add; commit.  An exception ends the run (rollback).
FlowCreate(fail) ==
    /\ flow.pc = "idle"
    /\ nextUuid <= MaxPractice
    /\ nextUuid' = nextUuid + 1
    /\ IF fail \/ ~PracticeRowAccepted(users, [user_id |-> NoUser])
       THEN /\ practice' = practice
            /\ flow' = [FlowIdle EXCEPT !.test_id = nextUuid, !.result = "error"]
       ELSE /\ practice' =
                  AddPracticeCommit(practice, nextUuid, NoUser, "task3", now)
            /\ flow' = [pc |-> "created", test_id |-> nextUuid, result |-> "none"]
    /\ UNCHANGED lastA
    /\ UNCHANGED <<authVars, phraseVars>>

\* step 2: the lookup by id; a miss ends the run
FlowRetrieve ==
    /\ flow.pc = "created"
    /\ flow' = IF PracticeById(practice, flow.test_id) = NoPractice
               THEN [FlowIdle EXCEPT !.test_id = flow.test_id, !.result = "failed"]
               ELSE [flow EXCEPT !.pc = "retrieved"]
    /\ UNCHANGED <<practice, nextUuid, lastA>>
    /\ UNCHANGED <<authVars, phraseVars>>

\* step 3: the transcript, the four scores and the feedback are set; commit
FlowUpdate(fail) ==
    /\ flow.pc = "retrieved"
    /\ IF fail
       THEN /\ practice' = practice
            /\ flow' = [FlowIdle EXCEPT !.test_id = flow.test_id, !.result = "error"]
       ELSE /\ practice' = ScorePracticeCommit(practice, flow.test_id, 3)
            /\ flow' = [flow EXCEPT !.pc = "updated"]
    /\ UNCHANGED <<nextUuid, lastA>>
    /\ UNCHANGED <<authVars, phraseVars>>

\* step 4: the second lookup by id and the comparison of overall_score with 3
FlowVerify ==
    /\ flow.pc = "updated"
    /\ LET final_session == PracticeById(practice, flow.test_id) IN
         flow' = IF final_session = NoPractice \/ final_session.overall_score # 3
                 THEN [FlowIdle EXCEPT !.test_id = flow.test_id,
                                       !.result = "failed"]
                 ELSE [flow EXCEPT !.pc = "verified"]
    /\ UNCHANGED <<practice, nextUuid, lastA>>
    /\ UNCHANGED <<authVars, phraseVars>>

\* cleanup: the row is deleted and the run returns True
FlowCleanup(fail) ==
    /\ flow.pc = "verified"
    /\ IF fail
       THEN /\ practice' = practice
            /\ flow' = [FlowIdle EXCEPT !.test_id = flow.test_id, !.result = "error"]
       ELSE /\ practice' =
                  DeletePracticeCommit(practice, PracticeById(practice, flow.test_id))
            /\ flow' = [FlowIdle EXCEPT !.test_id = flow.test_id,
                                        !.result = "passed"]
    /\ UNCHANGED <<nextUuid, lastA>>
    /\ UNCHANGED <<authVars, phraseVars>>

\* GET /api/task1-archive/questions?user_id=ident&limit=..&offset=..
GetTask1QuestionsCall(ident, limit, offset) ==
    /\ \E res \in GetTask1Questions(users, practice, ident, limit, offset) :
          lastA' = [NoReply EXCEPT
                      !.op = "list", !.ident = ident, !.limit = limit,
                      !.offset = offset, !.status = res.status,
                      !.detail = res.detail, !.total = res.total,
                      !.questions = res.questions]
    /\ UNCHANGED <<practice, nextUuid, flow>>
    /\ UNCHANGED <<authVars, phraseVars>>

\* GET /api/task1-archive/questions/{question_id}?user_id=ident
GetTask1QuestionCall(ident, q) ==
    /\ LET res == GetTask1Question(users, practice, ident, q) IN
         lastA' = [NoReply EXCEPT
                     !.op = "get", !.ident = ident, !.question_id = q,
                     !.status = res.status, !.detail = res.detail,
                     !.questions = res.questions]
    /\ UNCHANGED <<practice, nextUuid, flow>>
    /\ UNCHANGED <<authVars, phraseVars>>

\* The owners a new PracticeSession can have
Owners == {u.id : u \in users} \cup {NoUser}

NextArchive ==
    \/ \E i \in Idents : CreateUser(i)
    \/ \E uid \in Owners, tt \in TaskTypes : GenerateProblem(uid, tt)
    \/ \E i \in AskedIdents, w \in AskedWindows :
          GetTask1QuestionsCall(i, w.limit, w.offset)
    \/ \E i \in AskedIdents, q \in AskedQuestionIds : GetTask1QuestionCall(i, q)
    \/ \E t \in ArchiveInstants : Tick(t)

SpecArchive == Init /\ [][NextArchive]_vars

NextFlow ==
    \/ \E i \in Idents : CreateUser(i)
    \/ \E uid \in Owners, tt \in TaskTypes : GenerateProblem(uid, tt)
    \/ \E fail \in BOOLEAN : FlowCreate(fail)
    \/ FlowRetrieve
    \/ \E fail \in BOOLEAN : FlowUpdate(fail)
    \/ FlowVerify
    \/ \E fail \in BOOLEAN : FlowCleanup(fail)

SpecFlow == Init /\ [][NextFlow]_vars

\* ------------------------------------------------------------ properties

\* The User rows that carry the identifier
UsersWith(U, ident) == {u \in U : u.user_identifier = ident}

\* C1: in every interleaving of logins with the same identifier the store holds
\* at most one User row with that identifier, and all the calls of
\* create_or_get_user that return a user return the same user id.
C1_NoDuplicateUsers ==
    \A i \in Idents :
        /\ Cardinality(UsersWith(users, i)) <= 1
        /\ Cardinality(cguReturned[i]) <= 1

\* C1 witness: two logins raced on one new identifier: both looked it up and
\* found nothing, one inserted the row and the commit of the other was
\* rejected.
C1_RaceHappened ==
    /\ last.op = "login" /\ last.status = 500 /\ last.err = "IntegrityError"
    /\ \E r \in Reqs :
          /\ req[r].pc = "login_session"
          /\ req[r].ident = last.ident
          /\ req[r].created # NoUser

\* C2: a login answered with 500 leaves no User row and no Session row that
\* the call created.
C2_LoginAllOrNothing ==
    (last.op = "login" /\ last.status = 500)
        => /\ \A u \in users : u.id # last.created
           /\ \A s \in sessions : s.session_token # last.token

\* C3: once get_current_user has met a session whose expires_at is in the past,
\* it has returned no user and the row is gone: a lookup of the token by
\* get_current_user or by logout finds no row.
C3_ExpiredPurged ==
    (last.op = "resolve" /\ last.found # NoRow /\ last.found.expires_at < last.at)
        => /\ last.status = 401 /\ last.user = NoUser
           /\ last.found \notin sessions
           /\ SessionByToken(sessions, last.token) = NoRow
           /\ GetCurrentUser(users, sessions, now, last.token).user = NoUser
           /\ Logout(sessions, last.token).sessions = sessions

\* C3 witness: a get_current_user call has met an expired session.
C3_ExpiredResolved ==
    /\ last.op = "resolve"
    /\ last.found # NoRow
    /\ last.found.expires_at < last.at

\* C4 as claimed: get_current_user returns the owning user if and only
\* if now < expires_at.
C4_ActiveIffBeforeExpiry ==
    (last.op = "resolve" /\ last.found # NoRow)
        => ((last.status = 200 /\ last.user = last.found.user_id)
                <=> last.at < last.found.expires_at)

\* C4 amended: get_current_user returns the owning user if and only if
\* now <= expires_at; at now = expires_at the session is still active and its
\* row is kept, and from now > expires_at on it returns no user and the row
\* is purged.
C4_ActiveIffNotAfterExpiry ==
    (last.op = "resolve" /\ last.found # NoRow)
        => /\ (last.status = 200 /\ last.user = last.found.user_id)
                <=> last.at <= last.found.expires_at
           /\ last.at > last.found.expires_at
                => (last.status = 401 /\ last.found \notin sessions)
           /\ (last.at = last.found.expires_at /\ now = last.at)
                => last.found \in sessions

\* C4 witness: a get_current_user call at the very instant of expiry has
\* returned the user.
C4_ResolvedAtExpiry ==
    /\ last.op = "resolve"
    /\ last.found # NoRow
    /\ last.at = last.found.expires_at
    /\ last.status = 200

\* Request r completes a successful login in this step
LoginReturns(r) ==
    /\ req[r].pc = "login_session"
    /\ req'[r].pc = "idle"
    /\ last'.op = "login"
    /\ last'.status = 200

\* C5: the token a login returns resolves, by a get_current_user run right
\* after the login, to the user whose user_identifier is the identifier of the
\* login and whose id is the user_id the login returned.
C5_LoginTokenResolves ==
    [][\A r \in Reqs :
         LoginReturns(r) =>
            LET res == GetCurrentUser(users', sessions', now', last'.token) IN
              /\ res.user # NoUser
              /\ res.user = last'.user
              /\ res.user = UserByIdentifier(users', req[r].ident)
              /\ res.sessions = sessions']_vars

\* C5 witness: verify_session, called with the token of a login at the instant
\* of that login, has returned the user of the session.
C5_LoginThenResolved ==
    /\ last.op = "resolve" /\ last.status = 200
    /\ last.found # NoRow
    /\ last.found.expires_at = last.at + 30
    /\ last.user = last.found.user_id
    /\ \E u \in users : u.id = last.user

\* C6: a login returns a token different from that of every session in the
\* store; every session that has not expired resolves to its own user, so two
\* sessions of one user resolve to the same user id; and when logout removes
\* the session of T1, T1 resolves to no user while every other session stays
\* and resolves as before.
C6_SessionsIndependent ==
    [][/\ \A r \in Reqs :
            LoginReturns(r) =>
               /\ \A s \in sessions : s.session_token # last'.token
               /\ \A s \in sessions' :
                     now' <= s.expires_at =>
                        GetCurrentUser(users', sessions', now', s.session_token).user
                            = s.user_id
       /\ \A tok \in PresentedTokens :
            LogoutCall(tok) =>
               /\ GetCurrentUser(users', sessions', now', tok).user = NoUser
               /\ \A s \in sessions :
                     s.session_token # tok =>
                        /\ s \in sessions'
                        /\ GetCurrentUser(users', sessions', now', s.session_token).user
                             = GetCurrentUser(users, sessions, now, s.session_token).user
      ]_vars

\* C6 witness: one user logged in twice, the first token has been logged out
\* and the second one still resolves to the user.
C6_LoggedOutOneOfTwo ==
    /\ last.op = "logout" /\ last.found # NoRow
    /\ GetCurrentUser(users, sessions, now, last.token).user = NoUser
    /\ \E s \in sessions :
          /\ s.user_id = last.found.user_id
          /\ s.session_token # last.token
          /\ GetCurrentUser(users, sessions, now, s.session_token).user = s.user_id

\* C7: create_or_get_user called twice in a row with one identifier returns the
\* same user id both times, the second call adds no User row, and one row
\* carries the identifier after either call.
C7_SequentialIdempotence ==
    \A i \in Idents :
        LET c1 == CreateOrGetUser(users, i)
            c2 == CreateOrGetUser(c1.users, i) IN
          /\ c1.user # NoUser
          /\ c2.user = c1.user
          /\ c2.users = c1.users
          /\ Cardinality(UsersWith(c1.users, i)) = 1
          /\ Cardinality(UsersWith(c2.users, i)) = 1

\* C7 witness: a create_or_get_user call has found and returned the user that
\* an earlier call created.
C7_SecondCallReturned ==
    \E r \in Reqs :
        /\ req[r].pc = "login_session"
        /\ req[r].user # NoUser /\ req[r].created = NoUser
        /\ cguReturned[req[r].ident] = {req[r].user}
        /\ Cardinality(UsersWith(users, req[r].ident)) = 1
        /\ CreateOrGetUser(users, req[r].ident).user = req[r].user

\* C8: every logout answers with the success message and leaves no row of its
\* token; a logout of a token without a Session row leaves the store as it
\* is; and a second logout of a token leaves the store as the first one left it.
C8_LogoutIdempotent ==
    /\ last.op = "logout" =>
          /\ last.status = 200
          /\ SessionByToken(sessions, last.token) = NoRow
    /\ \A tok \in PresentedTokens :
          LET l1 == Logout(sessions, tok)
              l2 == Logout(l1.sessions, tok) IN
            /\ l1.status = 200 /\ l2.status = 200
            /\ l2.sessions = l1.sessions
            /\ SessionByToken(l1.sessions, tok) = NoRow
            /\ SessionByToken(sessions, tok) = NoRow => l1.sessions = sessions

\* C8 witness: a logout of a token that matches no Session row has answered
\* with the success message, with other sessions in the store.
C8_LoggedOutMissingToken ==
    /\ last.op = "logout" /\ last.found = NoRow /\ last.status = 200
    /\ sessions # {}

\* C9: no two Session rows share a session_token.
C9_TokenUnique ==
    \A s1 \in sessions, s2 \in sessions :
        s1.session_token = s2.session_token => s1 = s2

\* C9 witness: two Session rows are in the store after logins and a logout or
\* a get_current_user call.
C9_TwoSessionsPresent ==
    /\ Cardinality(sessions) >= 2
    /\ last.op \in {"logout", "resolve"}

\* C10: a successful login adds exactly one Session row, with the user_id of
\* the resolved user, the token returned and expires_at = now + 30 days, and
\* keeps every row that was there; no other step of a login changes the
\* sessions table.
C10_OneNewSessionPerLogin ==
    [][\A r \in Reqs :
         ((req[r].op = "login" \/ req'[r].op = "login") /\ req'[r] # req[r]) =>
            IF LoginReturns(r)
            THEN /\ sessions \subseteq sessions'
                 /\ sessions' \ sessions =
                      {[user_id |-> last'.user,
                        session_token |-> last'.token,
                        expires_at |-> now + 30]}
                 /\ last'.user = UserByIdentifier(users, req[r].ident)
                 /\ \A s \in sessions : s.session_token # last'.token
            ELSE sessions' = sessions]_vars

\* C10 witness: a login has succeeded for a user who had a session already,
\* and both rows are in the store.
C10_LoginWithExistingSession ==
    /\ last.op = "login" /\ last.status = 200
    /\ \E s1 \in sessions, s2 \in sessions :
          /\ s1.session_token = last.token
          /\ s2.session_token # last.token
          /\ s1.user_id = last.user /\ s2.user_id = last.user

\* ================================================== the phrase repository
\* backend/repositories/phrase_repository.py.  A SavedPhrase row is modelled
\* by its id, user_id, is_mastered and created_at; phrase, context and
\* category are stored as given and read by no method.

\* The id the store generates for a new SavedPhrase row
NewPhraseId(n) == n

\* save_phrase: SavedPhrase(user_id, ..., is_mastered=False); add; commit;
\* refresh; the table afterwards and the row returned
SavePhrase(P, n, uid, t) ==
    LET saved_phrase ==
            [id |-> NewPhraseId(n), user_id |-> uid, is_mastered |-> FALSE,
             created_at |-> t] IN
      [phrases |-> P \cup {saved_phrase}, result |-> saved_phrase]

\* get_phrase: query(SavedPhrase).filter(SavedPhrase.id == phrase_id).first()
GetPhrase(P, id) ==
    IF \E p \in P : p.id = id THEN CHOOSE p \in P : p.id = id ELSE NoPhrase

\* A listing without the filter on the owner
GetUserPhrases_all(P, uid) ==
    {ord \in [1..Cardinality(P) -> P] :
        /\ \A i, j \in 1..Cardinality(P) : i # j => ord[i] # ord[j]
        /\ \A i, j \in 1..Cardinality(P) :
              i < j => ord[i].created_at >= ord[j].created_at}

\* get_user_phrases: filter(SavedPhrase.user_id == user_id)
\* .order_by(SavedPhrase.created_at.desc()).all(): every list the call can
\* return; rows with one created_at come in any order
GetUserPhrases(P, uid) ==
    LET own == {p \in P : p.user_id = uid} IN
      {ord \in [1..Cardinality(own) -> own] :
          /\ \A i, j \in 1..Cardinality(own) : i # j => ord[i] # ord[j]
          /\ \A i, j \in 1..Cardinality(own) :
                i < j => ord[i].created_at >= ord[j].created_at}

\* A delete that removes every phrase of the owner of the row
DeletePhraseCommit_allOfUser(P, phrase) == {p \in P : p.user_id # phrase.user_id}

\* self.db.delete(phrase); self.db.commit()
DeletePhraseCommit(P, phrase) == P \ {phrase}

\* delete_phrase: the table afterwards and the value returned
DeletePhrase(P, id) ==
    LET phrase == GetPhrase(P, id) IN
      IF phrase # NoPhrase
      THEN [phrases |-> DeletePhraseCommit(P, phrase), deleted |-> TRUE]
      ELSE [phrases |-> P, deleted |-> FALSE]

\* An update that writes the row back when the lookup finds none
UpdateMasteredStatus_upsert(P, id, is_mastered) ==
    LET phrase == GetPhrase(P, id)
        updated == [id |-> id, user_id |-> phrase.user_id,
                    is_mastered |-> is_mastered,
                    created_at |-> phrase.created_at] IN
      [phrases |-> (P \ {phrase}) \cup {updated}, result |-> updated]

\* update_mastered_status: the table afterwards and the row returned
UpdateMasteredStatus(P, id, is_mastered) ==
    LET phrase == GetPhrase(P, id) IN
      IF phrase # NoPhrase
      THEN LET updated == [phrase EXCEPT !.is_mastered = is_mastered] IN
             [phrases |-> (P \ {phrase}) \cup {updated}, result |-> updated]
      ELSE [phrases |-> P, result |-> NoPhrase]

\* save_phrase for a user the caller resolved
SavePhraseCall(uid) ==
    /\ nextPhraseId <= MaxPhrases
    /\ LET res == SavePhrase(phrases, nextPhraseId, uid, now) IN
         /\ phrases' = res.phrases
         /\ savedPhrases' =
              savedPhrases \cup {[id |-> res.result.id, user_id |-> uid]}
         /\ lastP' = [NoPhraseCall EXCEPT
                        !.op = "save", !.id = res.result.id, !.user = uid,
                        !.found = res.result]
    /\ nextPhraseId' = nextPhraseId + 1
    /\ UNCHANGED <<deletedPhrases, deleting>>
    /\ UNCHANGED <<authVars, archiveVars>>

\* get_phrase
GetPhraseCall(id) ==
    /\ lastP' = [NoPhraseCall EXCEPT
                   !.op = "get", !.id = id, !.found = GetPhrase(phrases, id)]
    /\ UNCHANGED <<phrases, nextPhraseId, savedPhrases, deletedPhrases, deleting>>
    /\ UNCHANGED <<authVars, archiveVars>>

\* get_user_phrases
GetUserPhrasesCall(uid) ==
    /\ \E ord \in GetUserPhrases(phrases, uid) :
          lastP' = [NoPhraseCall EXCEPT
                      !.op = "list", !.user = uid, !.list = ord]
    /\ UNCHANGED <<phrases, nextPhraseId, savedPhrases, deletedPhrases, deleting>>
    /\ UNCHANGED <<authVars, archiveVars>>

\* delete_phrase
DeletePhraseCall(id) ==
    /\ LET res == DeletePhrase(phrases, id) IN
         /\ phrases' = res.phrases
         /\ deletedPhrases' =
              IF res.deleted THEN deletedPhrases \cup {id} ELSE deletedPhrases
         /\ lastP' = [NoPhraseCall EXCEPT
                        !.op = "delete", !.id = id,
                        !.found = GetPhrase(phrases, id),
                        !.deleted = res.deleted]
    /\ UNCHANGED <<nextPhraseId, savedPhrases, deleting>>
    /\ UNCHANGED <<authVars, archiveVars>>

\* update_mastered_status
UpdateMasteredStatusCall(id, is_mastered) ==
    /\ LET res == UpdateMasteredStatus(phrases, id, is_mastered) IN
         /\ phrases' = res.phrases
         /\ lastP' = [NoPhraseCall EXCEPT
                        !.op = "setMastered", !.id = id,
                        !.is_mastered = is_mastered, !.found = res.result]
    /\ UNCHANGED <<nextPhraseId, savedPhrases, deletedPhrases, deleting>>
    /\ UNCHANGED <<authVars, archiveVars>>

\* The ids of the users
UserIds == {u.id : u \in users}

NextPhrase ==
    \/ \E i \in Idents : CreateUser(i)
    \/ \E uid \in UserIds : SavePhraseCall(uid)
    \/ \E id \in PhraseIds : GetPhraseCall(id)
    \/ \E uid \in UserIds : GetUserPhrasesCall(uid)
    \/ \E id \in PhraseIds : DeletePhraseCall(id)
    \/ \E id \in PhraseIds, b \in BOOLEAN : UpdateMasteredStatusCall(id, b)
    \/ \E t \in ArchiveInstants : Tick(t)

SpecPhrase == Init /\ [][NextPhrase]_vars

\* ------------------------------------ delete_phrase, one store round trip
\* at a time.  Every request has its own database session; the lookup and the
\* delete with its commit are one atomic step each, and the steps of the
\* calls of different workers interleave freely.

\* Worker r is called with delete_phrase(id)
DeleteStart(r, id) ==
    /\ deleting[r].pc \in {"idle", "done"}
    /\ deleting' = [deleting EXCEPT ![r] =
                       [NotDeleting EXCEPT
                          !.pc = "lookup", !.id = id,
                          !.existed = (GetPhrase(phrases, id) # NoPhrase)]]
    /\ UNCHANGED <<phrases, nextPhraseId, savedPhrases, deletedPhrases, lastP>>
    /\ UNCHANGED <<authVars, archiveVars>>

\* phrase = self.get_phrase(phrase_id); a miss returns False
DeleteLookup(r) ==
    /\ deleting[r].pc = "lookup"
    /\ LET phrase == GetPhrase(phrases, deleting[r].id) IN
         deleting' = [deleting EXCEPT
                        ![r].phrase = phrase,
                        ![r].pc = IF phrase # NoPhrase THEN "delete" ELSE "done",
                        ![r].result = FALSE]
    /\ UNCHANGED <<phrases, nextPhraseId, savedPhrases, deletedPhrases, lastP>>
    /\ UNCHANGED <<authVars, archiveVars>>

\* self.db.delete(phrase); self.db.commit(); return True.  The flush sends
\* DELETE ... WHERE id = the id of the object; when another request has
\* removed the row in the meantime the statement matches no row, which the
\* mapper answers with a warning, and the call goes on to return True.
DeleteCommit(r) ==
    /\ deleting[r].pc = "delete"
    /\ LET row == GetPhrase(phrases, deleting[r].phrase.id) IN
         /\ phrases' = DeletePhraseCommit(phrases, row)
         /\ deletedPhrases' =
              IF row # NoPhrase THEN deletedPhrases \cup {row.id}
              ELSE deletedPhrases
    /\ deleting' = [deleting EXCEPT ![r].pc = "done", ![r].result = TRUE]
    /\ UNCHANGED <<nextPhraseId, savedPhrases, lastP>>
    /\ UNCHANGED <<authVars, archiveVars>>

NextPhraseRace ==
    \/ \E i \in Idents : CreateUser(i)
    \/ \E uid \in UserIds : SavePhraseCall(uid)
    \/ \E r \in Reqs, id \in PhraseIds : DeleteStart(r, id)
    \/ \E r \in Reqs : DeleteLookup(r)
    \/ \E r \in Reqs : DeleteCommit(r)

SpecPhraseRace == Init /\ [][NextPhraseRace]_vars

\* ------------------------------------------------- properties: the archive

\* The task1 PracticeSessions whose user_id is uid
OwnTask1(uid) == {p \in practice : p.task_type = "task1" /\ p.user_id = uid}

\* C11: for an existing user and a well-formed question_id, get_task1_question
\* answers a question_id of a PracticeSession of another user or of no user
\* with the same response as if no PracticeSession had that id: 404, "Task1
\* question not found", no question.
C11_ForeignLooksAbsent ==
    /\ \A i \in Idents, p \in practice, f \in {"canonical", "hex32"} :
          LET user == UserByIdentifier(users, i)
              q == [form |-> f, hex |-> p.id]
              res == GetTask1Question(users, practice, i, q) IN
            (user # NoUser /\ p.user_id # user)
               => /\ res = GetTask1Question(users, practice \ {p}, i, q)
                  /\ res.status = 404
                  /\ res.detail = "Task1 question not found"
                  /\ res.questions = <<>>
    /\ (lastA.op = "get" /\ lastA.question_id.form # "garbage"
            /\ UserByIdentifier(users, lastA.ident) # NoUser
            /\ \A p \in OwnTask1(UserByIdentifier(users, lastA.ident)) :
                  p.id # lastA.question_id.hex)
          => /\ lastA.status = 404
             /\ lastA.detail = "Task1 question not found"
             /\ lastA.questions = <<>>

\* C11 witness: a user has asked for the task1 question of another user and
\* has got 404.
C11_AskedForForeignQuestion ==
    /\ lastA.op = "get" /\ lastA.status = 404
    /\ UserByIdentifier(users, lastA.ident) # NoUser
    /\ \E p \in practice :
          /\ p.id = lastA.question_id.hex
          /\ p.task_type = "task1"
          /\ p.user_id # NoUser
          /\ p.user_id # UserByIdentifier(users, lastA.ident)

\* C12: a question_id that is no UUID is answered with 400, whether the user
\* exists or not; a question_id that is a UUID is never answered with 400, and
\* is answered with 404 when the user is unknown or has no task1 session with
\* that id.
C12_ValidationBeforeNotFound ==
    /\ \A i \in Idents, q \in QuestionIds :
          LET user == UserByIdentifier(users, i)
              res == GetTask1Question(users, practice, i, q) IN
            /\ q.form = "garbage" <=> res.status = 400
            /\ (q.form # "garbage"
                  /\ (user = NoUser \/ \A p \in OwnTask1(user) : p.id # q.hex))
                 => res.status = 404
            /\ res.status \in {200, 400, 404}
    /\ lastA.op = "get" =>
          /\ lastA.question_id.form = "garbage" <=> lastA.status = 400
          /\ lastA.status \in {200, 400, 404}

\* C12 witness: a text that is no UUID has been answered with 400 for a user
\* who does not exist, with PracticeSessions in the store.
C12_MalformedForUnknownUser ==
    /\ lastA.op = "get" /\ lastA.status = 400
    /\ lastA.question_id.form = "garbage"
    /\ UserByIdentifier(users, lastA.ident) = NoUser
    /\ practice # {}

\* C13: for one store and one user, every limit in [1,100] and offset >= 0 give
\* the same total: the number of task1 PracticeSessions of the user.
C13_TotalIgnoresWindow ==
    /\ \A i \in Idents, limit \in Limits, offset \in Offsets :
          UserByIdentifier(users, i) # NoUser =>
             \A res \in GetTask1Questions(users, practice, i, limit, offset) :
                /\ res.status = 200
                /\ res.total = Cardinality(OwnTask1(UserByIdentifier(users, i)))
    /\ (lastA.op = "list" /\ lastA.status = 200)
          => lastA.total = Cardinality(OwnTask1(UserByIdentifier(users, lastA.ident)))

\* C13 witness: a page that is shorter than the total has been returned.
C13_PageShorterThanTotal ==
    /\ lastA.op = "list" /\ lastA.status = 200
    /\ lastA.limit = 1 /\ lastA.offset = 1
    /\ Len(lastA.questions) = 1
    /\ lastA.total = 3

\* The page is the window [offset, offset+limit) of the rows of M in an order
\* of descending created_at: it has min(limit, max(0, |M| - offset)) entries,
\* each entry is the response for a row of M, no row comes twice, and the
\* entry at place k has fewer than offset+k rows of M that are newer and at
\* least offset+k rows that are as new or newer.
IsWindow(questions, M, limit, offset) ==
    LET total == Cardinality(M)
        rest == IF total - offset < 0 THEN 0 ELSE total - offset IN
      /\ Len(questions) = IF limit < rest THEN limit ELSE rest
      /\ \A k \in 1..Len(questions) :
            /\ \E p \in M : questions[k] = QuestionResponse(p)
            /\ \A j \in 1..Len(questions) :
                  j # k => questions[j].id # questions[k].id
            /\ \A j \in 1..Len(questions) :
                  j < k => questions[j].created_at >= questions[k].created_at
            /\ Cardinality({p \in M : p.created_at > questions[k].created_at})
                  < offset + k
            /\ Cardinality({p \in M : p.created_at >= questions[k].created_at})
                  >= offset + k

\* C14: the page of get_task1_questions is the window [offset, offset+limit) of
\* the task1 PracticeSessions of the resolved user in descending order of
\* created_at, with min(limit, max(0, total - offset)) entries and with no
\* session of another user, of no user or of another task type.
C14_PageIsWindow ==
    /\ \A i \in Idents, limit \in Limits, offset \in Offsets :
          UserByIdentifier(users, i) # NoUser =>
             \A res \in GetTask1Questions(users, practice, i, limit, offset) :
                IsWindow(res.questions, OwnTask1(UserByIdentifier(users, i)),
                         limit, offset)
    /\ (lastA.op = "list" /\ lastA.status = 200)
          => IsWindow(lastA.questions,
                      OwnTask1(UserByIdentifier(users, lastA.ident)),
                      lastA.limit, lastA.offset)

\* C14 witness: a user with three task1 sessions has asked with limit 50 and
\* offset 0 and has got the three of them, the most recent first, with total 3.
C14_ThreeOfThree ==
    /\ lastA.op = "list" /\ lastA.status = 200
    /\ lastA.limit = 50 /\ lastA.offset = 0
    /\ lastA.total = 3 /\ Len(lastA.questions) = 3
    /\ lastA.questions[1].created_at > lastA.questions[3].created_at

\* ------------------------------------- properties: the PracticeSession rows

\* The row of the test run, as a lookup by id returns it
FlowRow == PracticeById(practice, flow.test_id)

\* C18: the PracticeSession that the run created with user_id None is found by
\* its id with all scores None until the scoring update; from the commit of
\* the update on every lookup by id finds it with the scores, the transcript
\* and the feedback; and no step changes the task_type or the user_id of a
\* row, or takes the scores of a scored row away.
C18_PracticeLifecycle ==
    /\ [](/\ flow.pc \in {"created", "retrieved"} =>
              /\ FlowRow # NoPractice
              /\ FlowRow.user_id = NoUser
              /\ FlowRow.task_type = "task3"
              /\ FlowRow.overall_score = NoScore
          /\ flow.pc \in {"updated", "verified"} =>
              /\ FlowRow # NoPractice
              /\ FlowRow.user_id = NoUser
              /\ FlowRow.task_type = "task3"
              /\ FlowRow.overall_score = 3)
    /\ [][\A p \in practice, q \in practice' :
            p.id = q.id =>
               /\ q.task_type = p.task_type
               /\ q.user_id = p.user_id
               /\ q.created_at = p.created_at
               /\ p.overall_score # NoScore => q.overall_score = p.overall_score
         ]_vars

\* C18 witness: the second lookup of the run has found the row with its
\* scores, next to a PracticeSession of a user.
C18_UpdateVerified ==
    /\ flow.pc = "verified"
    /\ FlowRow.user_id = NoUser /\ FlowRow.overall_score = 3
    /\ \E p \in practice : p.user_id # NoUser

\* ----------------------------------------- properties: the phrase repository

\* The ids of the rows of a list
IdsOf(list) == {list[k].id : k \in DOMAIN list}

\* The ids of the phrases saved for uid and not removed by delete_phrase
LivePhraseIds(uid) ==
    {s.id : s \in {x \in savedPhrases : x.user_id = uid}} \ deletedPhrases

\* C15: get_user_phrases(u) returns exactly the phrases that were saved for u
\* and not deleted, each once; the phrase that save_phrase has just saved for A
\* is in the list of A and in the list of no other user.
C15_ListsAreOwnerScoped ==
    /\ \A u \in UserIds :
          \A list \in GetUserPhrases(phrases, u) :
             /\ IdsOf(list) = LivePhraseIds(u)
             /\ Len(list) = Cardinality(LivePhraseIds(u))
             /\ \A k \in DOMAIN list : list[k].user_id = u
    /\ lastP.op = "save" =>
          \A u \in UserIds :
             \A list \in GetUserPhrases(phrases, u) :
                lastP.id \in IdsOf(list) <=> u = lastP.user
    /\ lastP.op = "list" =>
          /\ IdsOf(lastP.list) = LivePhraseIds(lastP.user)
          /\ Len(lastP.list) = Cardinality(LivePhraseIds(lastP.user))

\* C15 witness: a phrase has been saved for one user while another user has a
\* phrase too.
C15_SavedNextToOthers ==
    /\ lastP.op = "save"
    /\ \E p \in phrases : p.user_id # lastP.user
    /\ \E list \in GetUserPhrases(phrases, lastP.user) : lastP.id \in IdsOf(list)

\* C16: for a phrase id that delete_phrase has removed, update_mastered_status
\* returns None and leaves the table as it is, get_phrase returns None, and no
\* list of get_user_phrases has a row with that id.
C16_NoResurrection ==
    /\ \A id \in deletedPhrases :
          /\ GetPhrase(phrases, id) = NoPhrase
          /\ \A b \in BOOLEAN :
                /\ UpdateMasteredStatus(phrases, id, b).result = NoPhrase
                /\ UpdateMasteredStatus(phrases, id, b).phrases = phrases
          /\ \A u \in UserIds :
                \A list \in GetUserPhrases(phrases, u) : id \notin IdsOf(list)
    /\ (lastP.op \in {"setMastered", "get"} /\ lastP.id \in deletedPhrases)
          => lastP.found = NoPhrase

\* C16 witness: update_mastered_status has been called for a deleted phrase
\* and has returned None.
C16_SetMasteredAfterDelete ==
    /\ lastP.op = "setMastered"
    /\ lastP.id \in deletedPhrases
    /\ lastP.found = NoPhrase
    /\ phrases # {}

\* C17: delete_phrase returns True exactly when a row with that id was in the
\* table, and then the table has lost that row and no other; it returns False
\* and leaves the table as it is otherwise; a second delete_phrase of the id
\* returns False.
C17_DeleteReportsRemoval ==
    [][\A id \in PhraseIds :
         DeletePhraseCall(id) =>
            /\ lastP'.deleted <=> \E p \in phrases : p.id = id
            /\ phrases' = {p \in phrases : p.id # id}
            /\ lastP'.deleted <=> phrases' # phrases
            /\ DeletePhrase(phrases', id).deleted = FALSE
            /\ DeletePhrase(phrases', id).phrases = phrases'
            /\ (lastP.op = "delete" /\ lastP.id = id) => ~lastP'.deleted
      ]_vars

\* C17 witness: the second delete_phrase of a phrase has returned False, with
\* another phrase of the same user still in the table.
C17_SecondDeleteReturnedFalse ==
    /\ lastP.op = "delete" /\ ~lastP.deleted
    /\ lastP.id \in deletedPhrases
    /\ \E s \in savedPhrases, p \in phrases :
          s.id = lastP.id /\ p.user_id = s.user_id

\* --------------------------------------- properties: the life of a session

\* C19: get_current_user changes no User row, adds no Session row, and removes
\* a Session row only if the row carries the token of the call and its
\* expires_at is in the past; for an empty or missing token, a token without a
\* row, and a token whose session has not expired the tables stay as they are,
\* and in the first two cases the call returns None and the answer is 401.
C19_CleanupFromExpiredOnly ==
    [][\A tok \in PresentedTokens :
         VerifySession(tok) =>
            LET row == SessionByToken(sessions, tok) IN
              /\ users' = users
              /\ sessions' \subseteq sessions
              /\ \A s \in sessions \ sessions' :
                    s.session_token = tok /\ s.expires_at < now
              /\ (tok = NoToken \/ row = NoRow \/ now <= row.expires_at)
                    => sessions' = sessions
              /\ (tok = NoToken \/ row = NoRow)
                    => (last'.user = NoUser /\ last'.status = 401)
      ]_vars

\* C19 witness: get_current_user has resolved a session that has not expired
\* while an expired session of another token is in the store, and that one is
\* still there.
C19_ResolvedNextToExpired ==
    /\ last.op = "resolve" /\ last.status = 200
    /\ last.found \in sessions
    /\ \E s \in sessions :
          s.session_token # last.token /\ s.expires_at < last.at

\* C20: the Session row of a token that a login returned carries the user of
\* that login; the user of every Session row exists; a Session row is never
\* changed, and leaves the store only by a logout with its own token or by a
\* get_current_user with its own token after its expiry; so every token whose
\* row is in the store resolves to its user while now < expires_at.
C20_ValidUntilExpiryOrLogout ==
    [][/\ \A r \in Reqs :
            LoginReturns(r) =>
               \E s \in sessions' :
                  /\ s.session_token = last'.token
                  /\ s.user_id = last'.user
                  /\ s.user_id = UserByIdentifier(users', req[r].ident)
       /\ \A s \in sessions' :
            /\ \E u \in users' : u.id = s.user_id
            /\ now' < s.expires_at =>
                  /\ GetCurrentUser(users', sessions', now', s.session_token).user
                       = s.user_id
                  /\ GetCurrentUser(users', sessions', now', s.session_token).sessions
                       = sessions'
       /\ \A s \in sessions :
            s \notin sessions' =>
               /\ \A x \in sessions' : x.session_token # s.session_token
               /\ \/ LogoutCall(s.session_token)
                  \/ VerifySession(s.session_token) /\ s.expires_at < now
      ]_vars

\* C20 witness: the first token still resolves to its user after a second
\* token was drawn for another user and the session of that one, if it had
\* one, has gone.
C20_FirstTokenOutlivesSecond ==
    /\ last.op = "resolve" /\ last.status = 200
    /\ last.token = 1 /\ last.at < last.found.expires_at
    /\ nextToken = 3
    /\ Cardinality(users) = 2
    /\ sessions = {last.found}

\* ------------------------------------- properties: concurrent delete_phrase

\* C21: when two workers were called with delete_phrase for one phrase that
\* was in the table at both calls and both calls have returned, the phrase is
\* gone and exactly one of the two calls has returned True.
C21_ExactlyOneDeleteReportsTrue ==
    \A r1, r2 \in Reqs :
        (/\ r1 # r2
         /\ deleting[r1].pc = "done" /\ deleting[r2].pc = "done"
         /\ deleting[r1].id = deleting[r2].id
         /\ deleting[r1].existed /\ deleting[r2].existed)
           => /\ GetPhrase(phrases, deleting[r1].id) = NoPhrase
              /\ deleting[r1].result # deleting[r2].result

=============================================================================
